---- MODULE Spec2Model ----
(***************************************************************************)
(* A model of termsweeper (src/main.rs): the Game struct, its key handlers *)
(* in Game::run, the recursive Game::reveal, and the two modal screens     *)
(* Game::win_game and Game::game_over.                                     *)
(*                                                                         *)
(* A step of the model is one key read from the input together with        *)
(* everything the program does until it blocks on the next read.           *)
(***************************************************************************)
EXTENDS Integers, Sequences, FiniteSets

(***************************************************************************)
(* Bounds of the model.                                                    *)
(***************************************************************************)
\* boards of every shape width x height with width * height <= MaxCells
MaxCells == 4
\* the clock runs from 0 to MaxTime seconds
MaxTime == 1
\* command lines of up to MaxArgs arguments
MaxArgs == 4
\* boards of up to MaxWideCells cells where the cascade is followed call by call
MaxWideCells == 5

(***************************************************************************)
(* Program constants.                                                      *)
(***************************************************************************)
MINE == "*"
CELL == "?"
FLAG == "F"
\* rng.gen_range(difficulty, 30) < 3
RngUpper == 30
MineThreshold == 3
\* difficulty.unwrap_or(1): the difficulty of a game started without -d
DefaultDifficulty == 1

\* CellState
Hidden == "Hidden"
Revealed == "Revealed"
Flagged == "Flagged"
CellState == {Hidden, Revealed, Flagged}

\* Where the single thread of the program is blocked (or that it has exited):
\* "Playing" in the read of Game::run, "Won" in the read of Game::win_game,
\* "Lost" in the read of Game::game_over, "Exited" after process::exit.
Playing == "Playing"
Won == "Won"
Lost == "Lost"
Exited == "Exited"
\* Before the game: "Main" in the argument loop of main, "Parsed" after it,
\* "Starting" once the terminal is in raw mode and Game::new is to be called.
Main == "Main"
Parsed == "Parsed"
Starting == "Starting"
\* Inside Game::reveal, called from the space arm of Game::run.
Revealing == "Revealing"
\* The process has ended by a panic (an unwrap or expect that failed).
Panicked == "Panicked"

\* The exit status of the process: none while it runs, 0 from
\* process::exit(0), 1 from process::exit(1), 101 from a panic.
Running == "running"
ExitSuccess == "0"
ExitFailure == "1"
ExitPanic == "101"

\* termion Key values the program tells apart; OtherKey stands for every key
\* that matches none of the patterns of the three match statements.
KeyLeft == "Left"
KeyRight == "Right"
KeyUp == "Up"
KeyDown == "Down"
KeySpace == " "
KeyF == "f"
KeyShiftF == "F"
KeyR == "r"
KeyQ == "q"
OtherKey == "x"
NoKey == "none"
\* input.next() returned None or Err: no key was read.
InputFault == "fault"
Keys == {KeyLeft, KeyRight, KeyUp, KeyDown, KeySpace, KeyF, KeyShiftF, KeyR, KeyQ, OtherKey}

\* What the terminal shows at a cell's position while a text box is up
\* (clear::All followed by draw_textbox): no cell glyph.
TEXTBOX == "textbox"
BLANK == " "

VARIABLES
    width,       \* Game.width
    height,      \* Game.height
    difficulty,  \* Game.difficulty
    cells,       \* Game.cells: index -> [mine, state]
    cursor,      \* Game.cursor: <<x, y>>
    screen,      \* the character shown at column x+2, row y+2, per <<x, y>>
    session,     \* where the program is blocked
    key,         \* the last key read from the input
    unflushed,   \* Game.output holds bytes written and not yet flushed
    start_time,  \* Game.start_time
    now,         \* the clock Instant::now() reads, in seconds
    raw,         \* the terminal is in raw mode
    status,      \* the exit status of the process
    args,        \* env::args().skip(1)
    stack        \* the calls of Game::reveal still to be made, next first

vars ==
    <<width, height, difficulty, cells, cursor, screen, session, key,
      unflushed, start_time, now, raw, status, args, stack>>

\* The Game value (self) as a record.
Self ==
    [width |-> width, height |-> height, difficulty |-> difficulty,
     cells |-> cells, cursor |-> cursor, screen |-> screen, session |-> session,
     unflushed |-> unflushed, start_time |-> start_time]

Max(a, b) == IF a >= b THEN a ELSE b
Min(a, b) == IF a <= b THEN a ELSE b

Positions(g) == (0..(g.width - 1)) \X (0..(g.height - 1))

(***************************************************************************)
(* Cell::as_char                                                           *)
(***************************************************************************)
as_char(cell) ==
    CASE cell.state = Hidden -> CELL
      [] cell.state = Revealed /\ ~cell.mine -> BLANK
      [] cell.state = Flagged -> FLAG
      [] OTHER -> MINE

(***************************************************************************)
(* Game::gen_board: every cell draws rng.gen_range(difficulty, 30) and is  *)
(* a mine when the draw is below 3; all cells start Hidden.  The set of    *)
(* boards the call can return.                                             *)
(***************************************************************************)
MineDraws(d) == {draw < MineThreshold : draw \in d..(RngUpper - 1)}

gen_board(d, w, h) ==
    {[i \in 0..(w * h - 1) |-> [mine |-> m[i], state |-> Hidden]] :
        m \in [0..(w * h - 1) -> MineDraws(d)]}

(***************************************************************************)
(* Game::position_index                                                    *)
(***************************************************************************)
position_index(g, x, y) == x + y * g.width

(***************************************************************************)
(* Game::neighbors: the Vec in the order the two loops push it.            *)
(***************************************************************************)
NeighborCandidates(x, y) ==
    << <<x - 1, y - 1>>, <<x - 1, y>>, <<x - 1, y + 1>>,
       <<x, y - 1>>,     <<x, y>>,     <<x, y + 1>>,
       <<x + 1, y - 1>>, <<x + 1, y>>, <<x + 1, y + 1>> >>

\* Only the four cells that share an edge with (x, y).
neighbors_orthogonal(g, x, y) ==
    LET keep(p) ==
            /\ p[1] >= 0
            /\ p[2] >= 0
            /\ p[1] < g.width
            /\ p[2] < g.height
            /\ (p[1] = x) # (p[2] = y)
    IN  SelectSeq(NeighborCandidates(x, y), keep)

\* A neighbour list that keeps the cell itself.
neighbors_with_self(g, x, y) ==
    LET keep(p) ==
            /\ p[1] >= 0
            /\ p[2] >= 0
            /\ p[1] < g.width
            /\ p[2] < g.height
    IN  SelectSeq(NeighborCandidates(x, y), keep)

\* A neighbour list that is not clipped at the right edge of the board.
neighbors_no_width_check(g, x, y) ==
    LET keep(p) ==
            /\ p[1] >= 0
            /\ p[2] >= 0
            /\ p[2] < g.height
            /\ (p[1] # x \/ p[2] # y)
    IN  SelectSeq(NeighborCandidates(x, y), keep)

neighbors(g, x, y) ==
    LET keep(p) ==
            /\ p[1] >= 0
            /\ p[2] >= 0
            /\ p[1] < g.width
            /\ p[2] < g.height
            /\ (p[1] # x \/ p[2] # y)
    IN  SelectSeq(NeighborCandidates(x, y), keep)

(***************************************************************************)
(* Game::redraw: every cell position shows the cell's as_char; the output  *)
(* is flushed at the end.                                                  *)
(***************************************************************************)
redraw(g) ==
    [g EXCEPT !.screen =
        [p \in Positions(g) |-> as_char(g.cells[position_index(g, p[1], p[2])])],
              !.unflushed = FALSE]

(***************************************************************************)
(* Game::did_win: cells.iter().filter(mine).all(state == Flagged)          *)
(***************************************************************************)
\* A did_win without the filter on mine.
did_win_no_filter(g) ==
    \A i \in DOMAIN g.cells : g.cells[i].state = Flagged

did_win(g) ==
    LET mines == {i \in DOMAIN g.cells : g.cells[i].mine}
    IN  \A i \in mines : g.cells[i].state = Flagged

(***************************************************************************)
(* Game::quit: clear the screen, flush and exit the process.               *)
(***************************************************************************)
quit(g) ==
    [g EXCEPT !.screen = [p \in Positions(g) |-> BLANK],
              !.unflushed = FALSE,
              !.session = Exited]

(***************************************************************************)
(* Game::win_game and Game::game_over up to their first read: the screen   *)
(* is cleared, the text box drawn, the output flushed, and the program     *)
(* blocks on the input.                                                    *)
(***************************************************************************)
\* The seconds win_game prints: self.start_time.elapsed().as_secs()
elapsed_secs(g, clock) == clock - g.start_time

win_game(g) ==
    [g EXCEPT !.screen = [p \in Positions(g) |-> TEXTBOX],
              !.unflushed = FALSE,
              !.session = Won]

\* A game_over that uncovers every mine before showing the text box.
game_over_uncover(g) ==
    [g EXCEPT !.cells = [i \in DOMAIN g.cells |->
                            IF g.cells[i].mine
                            THEN [g.cells[i] EXCEPT !.state = Revealed]
                            ELSE g.cells[i]],
              !.screen = [p \in Positions(g) |-> TEXTBOX],
              !.unflushed = FALSE,
              !.session = Lost]

game_over(g) ==
    [g EXCEPT !.screen = [p \in Positions(g) |-> TEXTBOX],
              !.unflushed = FALSE,
              !.session = Lost]

(***************************************************************************)
(* The neighbour-mine count of Game::reveal (filter_map ... sum).          *)
(***************************************************************************)
RECURSIVE SumSeq(_)
SumSeq(s) == IF s = <<>> THEN 0 ELSE Head(s) + SumSeq(Tail(s))

\* A count that misses the last neighbour pushed by Game::neighbors.
surrounding_mines_skip_last(g, nbrs) ==
    SumSeq([k \in 1..(Len(nbrs) - 1) |->
        IF g.cells[position_index(g, nbrs[k][1], nbrs[k][2])].mine THEN 1 ELSE 0])

surrounding_mines(g, nbrs) ==
    SumSeq([k \in 1..Len(nbrs) |->
        IF g.cells[position_index(g, nbrs[k][1], nbrs[k][2])].mine THEN 1 ELSE 0])

\* write!("{}", surrounding_mines) for a u8 in 1..=8: one decimal digit
Digits == <<"1", "2", "3", "4", "5", "6", "7", "8">>

(***************************************************************************)
(* Game::reveal.  A call that finds a Hidden mine enters game_over, which  *)
(* blocks on the input: the result then has session = Lost and the calls   *)
(* still pending on the stack are not continued in the same step.          *)
(***************************************************************************)
RECURSIVE reveal(_, _, _)
RECURSIVE RevealAll(_, _, _)

\* A loop over the neighbours that ends after the first of them.
RevealAll_first_only(g, nbrs, k) ==
    IF k > 1 \/ k > Len(nbrs) \/ g.session # Playing
    THEN g
    ELSE RevealAll(reveal(g, nbrs[k][1], nbrs[k][2]), nbrs, k + 1)

RevealAll(g, nbrs, k) ==
    IF k > Len(nbrs) \/ g.session # Playing
    THEN g
    ELSE RevealAll(reveal(g, nbrs[k][1], nbrs[k][2]), nbrs, k + 1)

reveal(g, x, y) ==
    LET i == position_index(g, x, y)
    IN  IF g.cells[i].state = Hidden /\ g.cells[i].mine
        THEN game_over(g)
        ELSE IF g.cells[i].state = Hidden /\ ~g.cells[i].mine
        THEN LET g1 == [g EXCEPT !.cells[i].state = Revealed]
                 nbrs == neighbors(g1, x, y)
                 count == surrounding_mines(g1, nbrs)
             IN  IF count > 0
                 THEN [g1 EXCEPT !.screen[<<x, y>>] = Digits[count],
                                 !.unflushed = TRUE]
                 ELSE RevealAll([g1 EXCEPT !.screen[<<x, y>>] = as_char(g1.cells[i]),
                                           !.unflushed = TRUE],
                                nbrs, 1)
        ELSE g

(***************************************************************************)
(* Game::run, the arms of match key.                                       *)
(***************************************************************************)
move_left(g) == [g EXCEPT !.cursor[1] = Max(g.cursor[1] - 1, 0)]
\* Right without the min against width - 1.
move_right_unclamped(g) == [g EXCEPT !.cursor[1] = g.cursor[1] + 1]

move_right(g) == [g EXCEPT !.cursor[1] = Min(g.cursor[1] + 1, g.width - 1)]
move_up(g) == [g EXCEPT !.cursor[2] = Max(g.cursor[2] - 1, 0)]
move_down(g) == [g EXCEPT !.cursor[2] = Min(g.cursor[2] + 1, g.height - 1)]

\* A reveal arm that looks at the mine before it looks at the state.
reveal_key_mine_first(g) ==
    LET cell == g.cells[position_index(g, g.cursor[1], g.cursor[2])]
    IN  IF cell.state = Revealed THEN g
        ELSE IF cell.mine THEN game_over(g)
        ELSE reveal(g, g.cursor[1], g.cursor[2])

reveal_key(g) ==
    LET cell == g.cells[position_index(g, g.cursor[1], g.cursor[2])]
    IN  IF cell.state = Hidden THEN reveal(g, g.cursor[1], g.cursor[2]) ELSE g

\* A flag arm that sets the flag and never takes it off.
toggle_flag_set_only(state) ==
    CASE state = Hidden -> Flagged
      [] OTHER -> state

toggle_flag(state) ==
    CASE state = Hidden -> Flagged
      [] state = Flagged -> Hidden
      [] OTHER -> state

flag_key(g) ==
    LET i == position_index(g, g.cursor[1], g.cursor[2])
        g1 == [g EXCEPT !.cells[i].state = toggle_flag(g.cells[i].state)]
    IN  [g1 EXCEPT !.screen[g.cursor] = as_char(g1.cells[i]), !.unflushed = TRUE]

restart_key(g, board) == redraw([g EXCEPT !.cells = board])

(***************************************************************************)
(* Game::run, the end of a loop iteration: the terminal cursor is put back,*)
(* the output flushed, and did_win decides whether win_game is entered.    *)
(***************************************************************************)
\* The Goto that puts the terminal cursor back, written without a flush.
reset_cursor_pos_no_flush(g) == [g EXCEPT !.unflushed = TRUE]

\* write!(Goto(cursor)) and self.output.flush()
reset_cursor_pos(g) == [g EXCEPT !.unflushed = FALSE]

end_of_iteration(g) ==
    LET g1 == reset_cursor_pos(g)
    IN  IF did_win(g1) THEN win_game(g1) ELSE g1

\* One iteration of the loop of Game::run for key k; board is what gen_board
\* returns if the key calls it.
run_key(g, k, board) ==
    LET g1 == CASE k = KeyLeft -> move_left(g)
                [] k = KeyRight -> move_right(g)
                [] k = KeyUp -> move_up(g)
                [] k = KeyDown -> move_down(g)
                [] k = KeySpace -> reveal_key(g)
                [] k \in {KeyF, KeyShiftF} -> flag_key(g)
                [] k = KeyR -> restart_key(g, board)
                [] k = KeyQ -> quit(g)
                [] OTHER -> g
    IN  IF g1.session = Playing THEN end_of_iteration(g1) ELSE g1

(***************************************************************************)
(* The loop of Game::win_game for key k.  On 'r' the loop breaks and       *)
(* win_game returns to the top of the loop of Game::run.                   *)
(***************************************************************************)
win_game_key(g, k, board) ==
    CASE k = KeyR -> redraw([g EXCEPT !.cells = board, !.session = Playing])
      [] k = KeyQ -> quit(g)
      [] OTHER -> g

(***************************************************************************)
(* The loop of Game::game_over for key k.  On 'r' the loop breaks and      *)
(* game_over returns into Game::reveal, which returns into the Key::Char   *)
(* (' ') arm of Game::run: the iteration that read the space ends there.   *)
(***************************************************************************)
\* A game_over whose loop ends on any key but 'q' and keeps the board.
game_over_key_any(g, k, board) ==
    CASE k = KeyR ->
            end_of_iteration(redraw([g EXCEPT !.cells = board, !.session = Playing]))
      [] k = KeyQ -> quit(g)
      [] OTHER -> end_of_iteration(redraw([g EXCEPT !.session = Playing]))

game_over_key(g, k, board) ==
    CASE k = KeyR ->
            end_of_iteration(redraw([g EXCEPT !.cells = board, !.session = Playing]))
      [] k = KeyQ -> quit(g)
      [] OTHER -> g

\* The program reading key k, wherever it is blocked.
handle_key(g, k, board) ==
    CASE g.session = Playing -> run_key(g, k, board)
      [] g.session = Won -> win_game_key(g, k, board)
      [] g.session = Lost -> game_over_key(g, k, board)
      [] OTHER -> g

(***************************************************************************)
(* The state machine.                                                      *)
(***************************************************************************)
Dims == {d \in (1..MaxCells) \X (1..MaxCells) : d[1] * d[2] <= MaxCells}

\* Game::new followed by the redraw at the top of Game::run.
Init ==
    /\ \E d \in Dims : width = d[1] /\ height = d[2]
    /\ difficulty = DefaultDifficulty
    /\ cells \in gen_board(difficulty, width, height)
    /\ cursor = <<0, 0>>
    /\ screen = [p \in (0..(width - 1)) \X (0..(height - 1)) |->
                    as_char(cells[p[1] + p[2] * width])]
    /\ session = Playing
    /\ key = NoKey
    /\ unflushed = FALSE
    /\ now = 0
    /\ start_time = now
    /\ raw = TRUE
    /\ status = Running
    /\ args = <<"-w", Digits[width], "-h", Digits[height]>>
    /\ stack = <<>>

\* The state the handlers leave; process::exit(0) in Game::quit ends the
\* process with status 0 and runs no destructor, so the terminal mode stays.
Commit(g, k) ==
    /\ cells' = g.cells
    /\ cursor' = g.cursor
    /\ screen' = g.screen
    /\ session' = g.session
    /\ unflushed' = g.unflushed
    /\ start_time' = g.start_time
    /\ key' = k
    /\ status' = IF g.session = Exited THEN ExitSuccess ELSE status
    /\ UNCHANGED <<width, height, difficulty, now, raw, args, stack>>

NoBoard == cells

Left == session = Playing /\ Commit(run_key(Self, KeyLeft, NoBoard), KeyLeft)
Right == session = Playing /\ Commit(run_key(Self, KeyRight, NoBoard), KeyRight)
Up == session = Playing /\ Commit(run_key(Self, KeyUp, NoBoard), KeyUp)
Down == session = Playing /\ Commit(run_key(Self, KeyDown, NoBoard), KeyDown)
Reveal == session = Playing /\ Commit(run_key(Self, KeySpace, NoBoard), KeySpace)
Flag ==
    /\ session = Playing
    /\ \E k \in {KeyF, KeyShiftF} : Commit(run_key(Self, k, NoBoard), k)
Restart ==
    /\ session = Playing
    /\ \E board \in gen_board(difficulty, width, height) :
            Commit(run_key(Self, KeyR, board), KeyR)
Quit == session = Playing /\ Commit(run_key(Self, KeyQ, NoBoard), KeyQ)
Ignored == session = Playing /\ Commit(run_key(Self, OtherKey, NoBoard), OtherKey)

WonRestart ==
    /\ session = Won
    /\ \E board \in gen_board(difficulty, width, height) :
            Commit(win_game_key(Self, KeyR, board), KeyR)
WonQuit == session = Won /\ Commit(win_game_key(Self, KeyQ, NoBoard), KeyQ)
WonIgnored ==
    /\ session = Won
    /\ \E k \in Keys \ {KeyR, KeyQ} : Commit(win_game_key(Self, k, NoBoard), k)

LostRestart ==
    /\ session = Lost
    /\ \E board \in gen_board(difficulty, width, height) :
            Commit(game_over_key(Self, KeyR, board), KeyR)
LostQuit == session = Lost /\ Commit(game_over_key(Self, KeyQ, NoBoard), KeyQ)
LostIgnored ==
    /\ session = Lost
    /\ \E k \in Keys \ {KeyR, KeyQ} : Commit(game_over_key(Self, k, NoBoard), k)

Next ==
    \/ Left
    \/ Right
    \/ Up
    \/ Down
    \/ Reveal
    \/ Flag
    \/ Restart
    \/ Quit
    \/ Ignored
    \/ WonRestart
    \/ WonQuit
    \/ WonIgnored
    \/ LostRestart
    \/ LostQuit
    \/ LostIgnored

Spec == Init /\ [][Next]_vars

(***************************************************************************)
(* The input stream failing: input.next() returns None or Some(Err), the   *)
(* expect / unwrap of the read panics.  The panic unwinds through          *)
(* Game::run into main, whose local game is dropped, and with it the       *)
(* RawTerminal in Game.output, whose destructor puts the terminal back     *)
(* into its normal mode (the unwinding of a default build).                *)
(***************************************************************************)
ReadFails ==
    /\ session \in {Playing, Won, Lost}
    /\ session' = Panicked
    /\ key' = InputFault
    /\ raw' = FALSE
    /\ status' = ExitPanic
    /\ UNCHANGED <<width, height, difficulty, cells, cursor, screen,
                   unflushed, start_time, now, args, stack>>

NextFault == Next \/ ReadFails

SpecFault == Init /\ [][NextFault]_vars

(***************************************************************************)
(* The clock advancing while the program is blocked on the input.          *)
(***************************************************************************)
Tick ==
    /\ session \in {Playing, Won, Lost}
    /\ now < MaxTime
    /\ now' = now + 1
    /\ UNCHANGED <<width, height, difficulty, cells, cursor, screen, session,
                   key, unflushed, start_time, raw, status, args, stack>>

NextClock == Next \/ Tick

SpecClock == Init /\ [][NextClock]_vars

(***************************************************************************)
(* main: the argument loop, the terminal setup and Game::new.              *)
(***************************************************************************)
\* Option::None of the locals width, height and difficulty, and the Err of
\* str::parse.
NoneValue == -1

WidthFlags == {"-w", "--width"}
HeightFlags == {"-h", "--height"}
DifficultyFlags == {"-d", "--difficulty"}
HelpFlag == "--help"

\* str::parse for the numbers of one decimal digit from 0 to 8.
ParseNumber(tok) ==
    IF tok = "0" THEN 0
    ELSE IF \E n \in 1..Len(Digits) : Digits[n] = tok
    THEN CHOOSE n \in 1..Len(Digits) : Digits[n] = tok
    ELSE NoneValue

\* The loop of main from argument i on, with the locals w, h and d: the
\* exit status if the loop exits the process, and the locals if it ends.
RECURSIVE parse_args(_, _, _, _, _)
parse_args(a, i, w, h, d) ==
    LET exit(code) == [status |-> code, width |-> w, height |-> h, difficulty |-> d]
    IN  IF i > Len(a) THEN exit(Running)
        ELSE IF a[i] = HelpFlag THEN exit(ExitSuccess)
        ELSE IF a[i] \in WidthFlags
        THEN IF w # NoneValue THEN parse_args(a, i + 1, w, h, d)
             ELSE IF i + 1 > Len(a) THEN exit(ExitFailure)
             ELSE IF ParseNumber(a[i + 1]) = NoneValue THEN exit(ExitFailure)
             ELSE parse_args(a, i + 2, ParseNumber(a[i + 1]), h, d)
        ELSE IF a[i] \in HeightFlags
        THEN IF h # NoneValue THEN parse_args(a, i + 1, w, h, d)
             ELSE IF i + 1 > Len(a) THEN exit(ExitFailure)
             ELSE IF ParseNumber(a[i + 1]) = NoneValue THEN exit(ExitFailure)
             ELSE parse_args(a, i + 2, w, ParseNumber(a[i + 1]), d)
        ELSE IF a[i] \in DifficultyFlags
        THEN IF d # NoneValue THEN parse_args(a, i + 1, w, h, d)
             ELSE IF i + 1 > Len(a) THEN exit(ExitFailure)
             ELSE IF ParseNumber(a[i + 1]) \in 0..2
             THEN parse_args(a, i + 2, w, h, ParseNumber(a[i + 1]))
             ELSE exit(ExitFailure)
        ELSE parse_args(a, i + 1, w, h, d)

ArgTokens == {"-w", "-h", "--height", "-d", HelpFlag, "1", "2", "3", "x"}

RECURSIVE ArgListsOfLen(_)
ArgListsOfLen(n) ==
    IF n = 0 THEN {<<>>}
    ELSE {Append(a, t) : a \in ArgListsOfLen(n - 1), t \in ArgTokens}

ArgLists == UNION {ArgListsOfLen(n) : n \in 0..MaxArgs}

\* The process at the top of main.
InitCli ==
    /\ args \in ArgLists
    /\ session = Main
    /\ width = NoneValue
    /\ height = NoneValue
    /\ difficulty = NoneValue
    /\ cells = <<>>
    /\ cursor = <<0, 0>>
    /\ screen = <<>>
    /\ key = NoKey
    /\ unflushed = FALSE
    /\ now = 0
    /\ start_time = 0
    /\ raw = FALSE
    /\ status = Running
    /\ stack = <<>>

\* The loop over the arguments.
ParseArgs ==
    /\ session = Main
    /\ LET r == parse_args(args, 1, NoneValue, NoneValue, NoneValue)
       IN  /\ width' = r.width
           /\ height' = r.height
           /\ difficulty' = r.difficulty
           /\ status' = r.status
           /\ session' = IF r.status = Running THEN Parsed ELSE Exited
    /\ UNCHANGED <<cells, cursor, screen, key, unflushed, start_time, now, raw, args, stack>>

\* io::stdout().lock().into_raw_mode().unwrap()
EnterRawMode ==
    /\ session = Parsed
    /\ raw' = TRUE
    /\ session' = Starting
    /\ UNCHANGED <<width, height, difficulty, cells, cursor, screen, key,
                   unflushed, start_time, now, status, args, stack>>

\* Game::new(stdin, stdout, difficulty.unwrap_or(1), width.unwrap(),
\* height.unwrap()) and Game::run up to its first read.  An unwrap of None
\* panics; the unwinding drops the RawTerminal, which leaves raw mode.
NewGame ==
    /\ session = Starting
    /\ IF width = NoneValue \/ height = NoneValue
       THEN /\ session' = Panicked
            /\ status' = ExitPanic
            /\ raw' = FALSE
            /\ UNCHANGED <<width, height, difficulty, cells, cursor, screen, key,
                           unflushed, start_time, now, args, stack>>
       ELSE /\ difficulty' = IF difficulty = NoneValue
                             THEN DefaultDifficulty ELSE difficulty
            /\ cells' \in gen_board(difficulty', width, height)
            /\ cursor' = <<0, 0>>
            /\ start_time' = now
            /\ screen' = [p \in (0..(width - 1)) \X (0..(height - 1)) |->
                            as_char(cells'[p[1] + p[2] * width])]
            /\ unflushed' = FALSE
            /\ session' = Playing
            /\ UNCHANGED <<width, height, key, now, raw, status, args, stack>>

NextCli == ParseArgs \/ EnterRawMode \/ NewGame

SpecCli == InitCli /\ [][NextCli]_vars

(***************************************************************************)
(* Game::reveal call by call: the recursion of the space arm unfolded into *)
(* the sequence of calls still to be made.                                 *)
(***************************************************************************)
WideDims ==
    {d \in (1..MaxWideCells) \X (1..MaxWideCells) : d[1] * d[2] <= MaxWideCells}

\* A game waiting for a key with the cursor at (0, 0), every cell Hidden
\* except at most one cell the player has flagged.
InitCascade ==
    /\ \E d \in WideDims : width = d[1] /\ height = d[2]
    /\ difficulty = DefaultDifficulty
    /\ \E board \in gen_board(difficulty, width, height) :
       \E F \in {{}} \cup {{i} : i \in DOMAIN board} :
            cells = [i \in DOMAIN board |->
                        IF i \in F THEN [board[i] EXCEPT !.state = Flagged]
                        ELSE board[i]]
    /\ cursor = <<0, 0>>
    /\ screen = [p \in (0..(width - 1)) \X (0..(height - 1)) |->
                    as_char(cells[p[1] + p[2] * width])]
    /\ session = Playing
    /\ key = NoKey
    /\ unflushed = FALSE
    /\ now = 0
    /\ start_time = now
    /\ raw = TRUE
    /\ status = Running
    /\ args = <<"-w", Digits[width], "-h", Digits[height]>>
    /\ stack = <<>>

\* The space arm of Game::run up to its call of Game::reveal.
CascadeStart ==
    /\ session = Playing
    /\ key' = KeySpace
    /\ session' = Revealing
    /\ stack' = IF cells[position_index(Self, cursor[1], cursor[2])].state = Hidden
                THEN <<cursor>> ELSE <<>>
    /\ UNCHANGED <<width, height, difficulty, cells, cursor, screen, unflushed,
                   start_time, now, raw, status, args>>

\* A call that writes the cell to the screen and leaves it Hidden.
CascadeStep_leaves_hidden ==
    /\ session = Revealing
    /\ stack # <<>>
    /\ LET x == Head(stack)[1]
           y == Head(stack)[2]
           i == position_index(Self, x, y)
       IN  IF cells[i].state = Hidden /\ cells[i].mine
           THEN LET g == game_over(Self)
                IN  /\ cells' = g.cells
                    /\ screen' = g.screen
                    /\ unflushed' = g.unflushed
                    /\ session' = g.session
                    /\ stack' = Tail(stack)
           ELSE IF cells[i].state = Hidden /\ ~cells[i].mine
           THEN LET nbrs == neighbors(Self, x, y)
                    count == surrounding_mines(Self, nbrs)
                IN  /\ cells' = cells
                    /\ unflushed' = TRUE
                    /\ session' = session
                    /\ IF count > 0
                       THEN /\ screen' = [screen EXCEPT ![<<x, y>>] = Digits[count]]
                            /\ stack' = Tail(stack)
                       ELSE /\ screen' = [screen EXCEPT ![<<x, y>>] = BLANK]
                            /\ stack' = nbrs \o Tail(stack)
           ELSE /\ stack' = Tail(stack)
                /\ UNCHANGED <<cells, screen, unflushed, session>>
    /\ UNCHANGED <<width, height, difficulty, cursor, key, start_time, now, raw,
                   status, args>>

\* One call of Game::reveal, up to its loop over the neighbours: the calls
\* of that loop are put before the calls that were waiting.
CascadeStep ==
    /\ session = Revealing
    /\ stack # <<>>
    /\ LET x == Head(stack)[1]
           y == Head(stack)[2]
           i == position_index(Self, x, y)
       IN  IF cells[i].state = Hidden /\ cells[i].mine
           THEN LET g == game_over(Self)
                IN  /\ cells' = g.cells
                    /\ screen' = g.screen
                    /\ unflushed' = g.unflushed
                    /\ session' = g.session
                    /\ stack' = Tail(stack)
           ELSE IF cells[i].state = Hidden /\ ~cells[i].mine
           THEN LET g1 == [Self EXCEPT !.cells[i].state = Revealed]
                    nbrs == neighbors(g1, x, y)
                    count == surrounding_mines(g1, nbrs)
                IN  /\ cells' = g1.cells
                    /\ unflushed' = TRUE
                    /\ session' = session
                    /\ IF count > 0
                       THEN /\ screen' = [screen EXCEPT ![<<x, y>>] = Digits[count]]
                            /\ stack' = Tail(stack)
                       ELSE /\ screen' = [screen EXCEPT ![<<x, y>>] = as_char(g1.cells[i])]
                            /\ stack' = nbrs \o Tail(stack)
           ELSE /\ stack' = Tail(stack)
                /\ UNCHANGED <<cells, screen, unflushed, session>>
    /\ UNCHANGED <<width, height, difficulty, cursor, key, start_time, now, raw,
                   status, args>>

\* The outermost call has returned: the rest of the iteration of Game::run.
CascadeEnd ==
    /\ session = Revealing
    /\ stack = <<>>
    /\ Commit(end_of_iteration([Self EXCEPT !.session = Playing]), key)

NextCascade ==
    \/ Left
    \/ Right
    \/ Up
    \/ Down
    \/ CascadeStart
    \/ CascadeStep
    \/ CascadeEnd

SpecCascade == InitCascade /\ [][NextCascade]_vars

\* The scheduler runs the process: a call that can be made is made.
SpecCascadeFair ==
    SpecCascade /\ WF_vars(CascadeStep) /\ WF_vars(CascadeEnd)

(***************************************************************************)
(* Properties.                                                             *)
(***************************************************************************)
CursorIndex == position_index(Self, cursor[1], cursor[2])
CursorCell == cells[CursorIndex]
RevealedCells == {i \in DOMAIN cells : cells[i].state = Revealed}
MineCells == {i \in DOMAIN cells : cells[i].mine}

\* The number of mines among the cells at Chebyshev distance 1 of cell i.
Abs(n) == IF n < 0 THEN -n ELSE n
Adjacent(i, j) ==
    /\ i # j
    /\ Abs((i % width) - (j % width)) <= 1
    /\ Abs((i \div width) - (j \div width)) <= 1
MinesAround(i) == Cardinality({j \in MineCells : Adjacent(i, j)})

CursorInRange ==
    /\ 0 <= cursor[1] /\ cursor[1] < width
    /\ 0 <= cursor[2] /\ cursor[2] < height

ClampStep ==
    session = Playing =>
        /\ key' = KeyLeft =>
                cursor' = <<IF cursor[1] = 0 THEN 0 ELSE cursor[1] - 1, cursor[2]>>
        /\ key' = KeyRight =>
                cursor' = <<IF cursor[1] = width - 1 THEN cursor[1] ELSE cursor[1] + 1,
                            cursor[2]>>
        /\ key' = KeyUp =>
                cursor' = <<cursor[1], IF cursor[2] = 0 THEN 0 ELSE cursor[2] - 1>>
        /\ key' = KeyDown =>
                cursor' = <<cursor[1],
                            IF cursor[2] = height - 1 THEN cursor[2] ELSE cursor[2] + 1>>

\* C1: in every reachable state the cursor is inside [0,width) x [0,height),
\* and a movement key handled in Playing moves the cursor by one cell, or
\* leaves it where it is at the edge it points to (clamped, never wrapped).
C1_CursorInBounds == []CursorInRange /\ [][ClampStep]_vars

\* The cursor was moved to the right edge of a board wider than one cell and
\* Down was then pressed on the bottom row.
C1_Witness ==
    /\ session = Playing
    /\ key = KeyDown
    /\ width > 1
    /\ cursor = <<width - 1, height - 1>>

\* C2: no mine cell is ever Revealed, and the program is in game_over only
\* with the cursor on a Hidden mine: the loss came from the reveal key on
\* that mine, never from a cell the cascade reached.
C2_NoMineRevealed ==
    /\ \A i \in MineCells : cells[i].state # Revealed
    /\ session = Lost => CursorCell.mine /\ CursorCell.state = Hidden

\* A cascade ran on a board that has a mine: the cell under the cursor was
\* revealed with no mine around it and took other cells with it.
C2_Witness ==
    /\ session = Playing
    /\ key = KeySpace
    /\ MineCells # {}
    /\ CursorCell.state = Revealed
    /\ MinesAround(CursorIndex) = 0
    /\ Cardinality(RevealedCells) >= 3

\* The reference flood fill from the cursor cell on the board before the key:
\* the least set S with the cursor cell in it such that every Hidden cell
\* next to a cell of S that has no mine around it is in S.
RECURSIVE FloodFrom(_)
FloodFrom(S) ==
    LET more == {j \in DOMAIN cells :
                    /\ cells[j].state = Hidden
                    /\ \E s \in S : MinesAround(s) = 0 /\ Adjacent(s, j)}
    IN  IF more \subseteq S THEN S ELSE FloodFrom(S \cup more)

FloodSet == FloodFrom({CursorIndex})

\* C3: the reveal key on a Hidden cell that is no mine turns exactly the cells
\* of the reference flood-fill set to Revealed and changes no other cell;
\* with a mine next to the cursor cell only that cell changes, and Flagged
\* and Revealed cells keep their state.
C3_RevealFloodFill ==
    [][(session = Playing /\ key' = KeySpace
            /\ CursorCell.state = Hidden /\ ~CursorCell.mine)
        => /\ \A i \in DOMAIN cells :
                cells'[i] = IF i \in FloodSet
                            THEN [cells[i] EXCEPT !.state = Revealed]
                            ELSE cells[i]
           /\ \A i \in FloodSet : cells[i].state = Hidden
           /\ MinesAround(CursorIndex) > 0 =>
                {i \in DOMAIN cells : cells'[i] # cells[i]} = {CursorIndex}
           /\ \A i \in DOMAIN cells :
                cells[i].state # Hidden => cells'[i] = cells[i]]_vars

\* A cascade from the cursor cell that a Flagged cell next to a revealed
\* cell without mines around it did not let through, on a board with a mine.
C3_Witness ==
    /\ session = Playing
    /\ key = KeySpace
    /\ CursorCell.state = Revealed
    /\ MinesAround(CursorIndex) = 0
    /\ MineCells # {}
    /\ \E j \in DOMAIN cells :
            /\ cells[j].state = Flagged
            /\ \E s \in RevealedCells \ {CursorIndex} :
                    MinesAround(s) = 0 /\ Adjacent(s, j)

\* C4: the reveal key in Playing with the cursor on a Hidden mine moves the
\* program into game_over (Lost) and changes no cell.
C4_MineEndsGame ==
    [][(session = Playing /\ key' = KeySpace
            /\ CursorCell.mine /\ CursorCell.state = Hidden)
        => (session' = Lost /\ cells' = cells)]_vars

\* A loss with the cursor away from the origin, the mine still Hidden.
C4_Witness ==
    /\ session = Lost
    /\ key = KeySpace
    /\ cursor # <<0, 0>>
    /\ CursorCell.mine
    /\ CursorCell.state = Hidden


\* C5: the reveal key in Playing on a cell that is not Hidden changes no cell,
\* writes no screen cell and does not lose the game; and a second reveal key
\* right after a first one leaves the board as the first one left it.
C5_RevealNotHiddenNoOp ==
    [][/\ (session = Playing /\ key' = KeySpace /\ CursorCell.state # Hidden)
            => (cells' = cells /\ screen' = screen /\ session' = Playing)
       /\ (key = KeySpace /\ key' = KeySpace) => cells' = cells]_vars

\* The reveal key was pressed with the cursor on a Flagged mine.
C5_Witness ==
    /\ session = Playing
    /\ key = KeySpace
    /\ CursorCell.state = Flagged
    /\ CursorCell.mine

\* The board after the flag key is pressed twice in a row from this state.
AfterFlagTwice ==
    handle_key(handle_key(Self, KeyF, NoBoard), KeyF, NoBoard).cells

\* C6 as stated: from every state waiting in Playing, two presses of the flag
\* key give back the board as it was.
C6_FlagTwiceRestores == session = Playing => AfterFlagTwice = cells

\* C6 as amended: one press of the flag key in Playing turns the cursor cell
\* from Hidden to Flagged or from Flagged to Hidden, leaves a Revealed cell
\* as it is, and changes no other cell; a second press undoes the first
\* whenever the first press left the program in Playing (a first press that
\* makes did_win true opens the win screen, which ignores the second).
C6_FlagToggle ==
    session = Playing =>
        LET g1 == handle_key(Self, KeyF, NoBoard)
        IN  /\ \A i \in DOMAIN cells : i # CursorIndex => g1.cells[i] = cells[i]
            /\ g1.cells[CursorIndex].mine = CursorCell.mine
            /\ g1.cells[CursorIndex].state =
                    (CASE CursorCell.state = Hidden -> Flagged
                       [] CursorCell.state = Flagged -> Hidden
                       [] OTHER -> Revealed)
            /\ g1.session = Playing => AfterFlagTwice = cells
            /\ g1.session # Playing =>
                    /\ g1.session = Won
                    /\ AfterFlagTwice = g1.cells
            /\ handle_key(Self, KeyShiftF, NoBoard) = g1

\* The flag key has put a flag on the cell under the cursor and the program
\* waits in Playing, on a board that also has a Revealed cell.
C6_Witness ==
    /\ session = Playing
    /\ key = KeyF
    /\ CursorCell.state = Flagged
    /\ RevealedCells # {}

AllMinesFlagged == \A i \in DOMAIN cells : cells[i].mine => cells[i].state = Flagged

DidWinIffAllMinesFlagged == did_win(Self) <=> AllMinesFlagged

WinStep ==
    session = Playing =>
        /\ key' # KeyQ => (session' = Won <=> AllMinesFlagged')
        /\ (key' \in {KeyF, KeyShiftF} /\ ~CursorCell.mine) =>
                /\ AllMinesFlagged' <=> AllMinesFlagged
                /\ MineCells # {} => session' = Playing
        /\ (key' = KeySpace /\ MineCells = {}) => session' = Won

\* C7: did_win is true exactly when every mine cell is Flagged, whatever the
\* other cells are; after every key handled in Playing except quit the
\* program is in the win screen exactly when that holds of the board; the
\* flag key on a cell that is no mine leaves the predicate as it was (and
\* the program in Playing when the board has a mine); the reveal key on a
\* board without mines opens the win screen.
C7_WinPredicate == []DidWinIffAllMinesFlagged /\ [][WinStep]_vars

\* Won by a flag key on a board that has a mine, with a flag on a cell that
\* is no mine and a Revealed cell.
C7_Witness ==
    /\ session = Won
    /\ key \in {KeyF, KeyShiftF}
    /\ MineCells # {}
    /\ \E i \in DOMAIN cells : ~cells[i].mine /\ cells[i].state = Flagged
    /\ RevealedCells # {}

\* C8: after 'r' in Playing, Won or Lost the cursor is (0,0) and the board is
\* one that gen_board returns for the same width, height and difficulty.
C8_RestartResets ==
    [][(session \in {Playing, Won, Lost} /\ key' = KeyR)
        => /\ cursor' = <<0, 0>>
           /\ <<width', height', difficulty'>> = <<width, height, difficulty>>
           /\ cells' \in gen_board(difficulty, width, height)]_vars

\* C9: 'r' in the win screen or in the game-over screen leaves the program
\* waiting in Playing, on a fresh all-Hidden board that is fully redrawn.
C9_RestartToPlaying ==
    [][(session \in {Won, Lost} /\ key' = KeyR)
        => /\ session' = Playing
           /\ cells' \in gen_board(difficulty, width, height)
           /\ screen' = [p \in DOMAIN screen |-> CELL]]_vars

\* C10: in the win screen and in the game-over screen every key but 'r' and
\* 'q' leaves the board, the cursor and the screen the program is in as
\* they are.
C10_ModalInert ==
    [][(session \in {Won, Lost} /\ key' \notin {KeyR, KeyQ})
        => (cells' = cells /\ cursor' = cursor /\ session' = session)]_vars

\* The flag key was pressed in the game-over screen.
C10_Witness ==
    /\ session = Lost
    /\ key = KeyF
    /\ cursor # <<0, 0>>

\* C11: a key that no match arm names changes neither the board nor the
\* cursor nor where the program waits, in Playing, Won and Lost alike.
C11_UnrecognizedIgnored ==
    [][(session \in {Playing, Won, Lost} /\ key' = OtherKey)
        => (cells' = cells /\ cursor' = cursor /\ session' = session)]_vars

\* The glyph the cell with index i is to be shown with.
Glyph(i) ==
    CASE cells[i].state = Hidden -> CELL
      [] cells[i].state = Flagged -> FLAG
      [] cells[i].state = Revealed /\ ~cells[i].mine /\ MinesAround(i) = 0 -> BLANK
      [] cells[i].state = Revealed /\ ~cells[i].mine -> Digits[MinesAround(i)]
      [] OTHER -> MINE

\* C12: whenever the program waits for a key in Playing, every cell position
\* of the screen shows the glyph of the cell's state: '?' for Hidden, 'F' for
\* Flagged, blank for Revealed without mines around, the digit N for
\* Revealed with N mines around.
C12_ScreenShowsBoard ==
    session = Playing =>
        \A p \in DOMAIN screen : screen[p] = Glyph(p[1] + p[2] * width)

\* C13: once the process has ended, by quit or by a failed read, the
\* terminal is no longer in raw mode.
C13_RawModeRestored == session \in {Exited, Panicked} => ~raw

\* C19: whenever the program is blocked on the input, and when it has
\* exited through quit, nothing written to the output is left unflushed.
C19_FlushedWhenWaiting ==
    session \in {Playing, Won, Lost, Exited} => ~unflushed

\* A cascade that wrote several cells, and a flag written over a cell, with
\* the program waiting in Playing.
C19_Witness ==
    /\ session = Playing
    /\ key \in {KeyF, KeyShiftF}
    /\ CursorCell.state = Flagged
    /\ Cardinality(RevealedCells) >= 2

\* C20: every restart sets the origin of the elapsed time to the time of
\* the restart, so that the seconds the win screen prints count from the
\* generation of the board that was won.
C20_RestartResetsTimer ==
    [][(session \in {Playing, Won, Lost} /\ key' = KeyR)
        => (start_time' = now' /\ elapsed_secs(Self', now') = 0)]_vars

\* The first place of a flag of F in the argument list a, or 0.
FirstFlag(a, F) ==
    IF \E i \in 1..Len(a) : a[i] \in F
    THEN CHOOSE i \in 1..Len(a) : a[i] \in F /\ \A j \in 1..(i - 1) : a[j] \notin F
    ELSE 0

NoValue(a, F) == FirstFlag(a, F) = Len(a)
ValueOf(a, F) == a[FirstFlag(a, F) + 1]
NotNumeric(tok) == tok \notin {"0", "1", "2", "3", "4", "5", "6", "7", "8", "9"}

\* An argument list that is a CLI argument error: no width flag or no height
\* flag, a width, height or difficulty flag without a value or with a value
\* that is no number, or a difficulty outside 0..2 (lists that ask for
\* --help are left out: they exit 0).
ArgError(a) ==
    /\ \A i \in 1..Len(a) : a[i] # HelpFlag
    /\ \/ FirstFlag(a, WidthFlags) = 0
       \/ FirstFlag(a, HeightFlags) = 0
       \/ \E F \in {WidthFlags, HeightFlags, DifficultyFlags} :
                /\ FirstFlag(a, F) # 0
                /\ (NoValue(a, F) \/ NotNumeric(ValueOf(a, F)))
       \/ /\ FirstFlag(a, DifficultyFlags) # 0
          /\ ~NoValue(a, DifficultyFlags)
          /\ ValueOf(a, DifficultyFlags) \notin {"0", "1", "2"}

\* C15: a process started with an argument error never enters raw mode,
\* never starts the game, and ends with exit status 1.
C15_ArgErrorsExit1 ==
    ArgError(args) =>
        /\ ~raw
        /\ session \in {Main, Exited}
        /\ session = Exited => status = ExitFailure

HiddenCells == {i \in DOMAIN cells : cells[i].state = Hidden}

\* What the calls still to be made can cost at most: every Hidden cell can
\* be revealed once and then puts at most eight calls in front.
CascadeMeasure == 8 * Cardinality(HiddenCells) + Len(stack)

\* One call of Game::reveal inside a cascade.
CascadeCall ==
    (session = Revealing /\ stack # <<>>) =>
        LET i == position_index(Self, Head(stack)[1], Head(stack)[2])
        IN  /\ \A j \in DOMAIN cells :
                    cells'[j] # cells[j] =>
                        /\ j = i
                        /\ cells[j].state = Hidden
                        /\ cells'[j] = [cells[j] EXCEPT !.state = Revealed]
            /\ cells[i].state # Hidden =>
                    /\ stack' = Tail(stack)
                    /\ cells' = cells
                    /\ screen' = screen
                    /\ session' = session
            /\ CascadeMeasure' < CascadeMeasure

CascadeReturns ==
    (session = Revealing) ~> (session \in {Playing, Won, Lost} /\ stack = <<>>)

\* C17: inside a cascade every call of reveal changes at most the cell it is
\* called on, and only from Hidden to Revealed; a call on a cell that is not
\* Hidden returns at once and changes nothing; every call lowers a measure
\* that is bounded below; and every cascade ends with the program back at a
\* key read (Playing, Won or Lost) with no call pending.
C17_RevealTerminates ==
    /\ [][CascadeCall]_vars
    /\ CascadeReturns

C17_Witness ==
    /\ session = Revealing
    /\ Len(stack) >= 3
    /\ Cardinality(RevealedCells) >= 3
    /\ cells[position_index(Self, Head(stack)[1], Head(stack)[2])].state = Revealed

\* The arguments of a call position_index(x, y) are in range.
InRange(x, y) ==
    /\ 0 <= x /\ x < width
    /\ 0 <= y /\ y < height
    /\ position_index(Self, x, y) \in 0..(width * height - 1)
    /\ position_index(Self, x, y) \in DOMAIN cells

\* C18: in every reachable state of a game every call of position_index has
\* 0 <= x < width and 0 <= y < height and an index inside the cell vector:
\* the call on the cursor in the key handlers, the calls of redraw on every
\* board position, the call of every pending reveal, and the calls on every
\* neighbour that Game::neighbors returns for a board position.
C18_IndexInRange ==
    (width >= 1 /\ height >= 1 /\ session \in {Playing, Revealing, Won, Lost}) =>
        /\ InRange(cursor[1], cursor[2])
        /\ DOMAIN cells = 0..(width * height - 1)
        /\ \A p \in Positions(Self) : InRange(p[1], p[2])
        /\ \A k \in 1..Len(stack) : InRange(stack[k][1], stack[k][2])
        /\ \A p \in Positions(Self) :
                LET nbrs == neighbors(Self, p[1], p[2])
                IN  \A k \in 1..Len(nbrs) : InRange(nbrs[k][1], nbrs[k][2])

C18_Witness ==
    /\ session = Revealing
    /\ width >= 2
    /\ height >= 2
    /\ Len(stack) >= 2
    /\ \E k \in 1..Len(stack) : stack[k] = <<width - 1, height - 1>>

\* Enumeration orders of a neighbour list: the list of Game::neighbors
\* rotated by o[1] places plus o[2] places per cell index, and reversed when
\* o[3] holds.  <<0, 0, FALSE>> is the order of the code.
Orders == (0..7) \X (0..1) \X BOOLEAN

Permute(s, i, o) ==
    [k \in 1..Len(s) |->
        LET j == ((k - 1 + o[1] + o[2] * i) % Len(s)) + 1
        IN  IF o[3] THEN s[Len(s) + 1 - j] ELSE s[j]]

\* The reveal procedure with the neighbours of every cell visited in the
\* order o.
RECURSIVE RevealInOrder(_, _, _, _)
RECURSIVE RevealAllInOrder(_, _, _, _)

RevealAllInOrder(g, nbrs, k, o) ==
    IF k > Len(nbrs)
    THEN g
    ELSE RevealAllInOrder(RevealInOrder(g, nbrs[k][1], nbrs[k][2], o), nbrs, k + 1, o)

RevealInOrder(g, x, y, o) ==
    LET i == x + y * g.width
    IN  IF g.cells[i].state # Hidden THEN g
        ELSE IF g.cells[i].mine THEN [g EXCEPT !.session = Lost]
        ELSE LET g1 == [g EXCEPT !.cells[i].state = Revealed]
                 nbrs == Permute(neighbors(g1, x, y), i, o)
             IN  IF \E k \in 1..Len(nbrs) : g1.cells[nbrs[k][1] + nbrs[k][2] * g.width].mine
                 THEN g1
                 ELSE RevealAllInOrder(g1, nbrs, 1, o)

RevealedIn(g) == {i \in DOMAIN g.cells : g.cells[i].state = Revealed}

\* C16: for every Hidden cell without a mine under the cursor of a game that
\* waits for a key, the cascade run with any of the enumeration orders of
\* Orders ends with the same Revealed cells and the same board as
\* Game::reveal, which uses the order of Game::neighbors.
C16_OrderIndependent ==
    (session = Playing /\ CursorCell.state = Hidden /\ ~CursorCell.mine) =>
        \A o \in Orders :
            LET byCode == reveal(Self, cursor[1], cursor[2])
                byOrder == RevealInOrder(Self, cursor[1], cursor[2], o)
            IN  /\ RevealedIn(byOrder) = RevealedIn(byCode)
                /\ byOrder.cells = byCode.cells

C16_Witness ==
    /\ session = Playing
    /\ CursorCell.state = Hidden
    /\ ~CursorCell.mine
    /\ cursor # <<0, 0>>
    /\ \E i \in DOMAIN cells : cells[i].state = Flagged
    /\ Cardinality(RevealedIn(reveal(Self, cursor[1], cursor[2]))) >= 3

\* The in-bounds cells at Chebyshev distance 1 from (x, y).
Chebyshev1(x, y) ==
    {q \in Positions(Self) : Max(Abs(q[1] - x), Abs(q[2] - y)) = 1}

OnBorderX(x) == x = 0 \/ x = width - 1
OnBorderY(y) == y = 0 \/ y = height - 1

NeighborsExact(x, y) ==
    LET nbrs == neighbors(Self, x, y)
        count == surrounding_mines(Self, nbrs)
    IN  /\ \A j, k \in 1..Len(nbrs) : nbrs[j] = nbrs[k] => j = k
        /\ \A k \in 1..Len(nbrs) : nbrs[k] # <<x, y>>
        /\ {nbrs[k] : k \in 1..Len(nbrs)} = Chebyshev1(x, y)
        /\ count = Cardinality({q \in Chebyshev1(x, y) :
                                    cells[position_index(Self, q[1], q[2])].mine})
        /\ count \in 0..8
        /\ (OnBorderX(x) /\ OnBorderY(y)) => Len(nbrs) <= 3
        /\ (OnBorderX(x) \/ OnBorderY(y)) => Len(nbrs) <= 5
        /\ (~OnBorderX(x) /\ ~OnBorderY(y)) => Len(nbrs) = 8

\* C14: on every board that Game::new builds and for every position (x, y)
\* of it, Game::neighbors returns every in-bounds cell at Chebyshev distance
\* 1 from (x, y) once, and not (x, y); the mine count that reveal computes
\* from it is the number of those cells with a mine and lies in 0..8; a
\* corner cell has at most 3 neighbours, an edge cell at most 5 and an
\* interior cell exactly 8.
C14_NeighborsExact ==
    session = Playing => \A p \in Positions(Self) : NeighborsExact(p[1], p[2])

C14_Witness ==
    /\ session = Playing
    /\ width = 3
    /\ height = 3
    /\ Len(neighbors(Self, 1, 1)) = 8
    /\ surrounding_mines(Self, neighbors(Self, 1, 1)) = 5
    /\ surrounding_mines(Self, neighbors(Self, 0, 0)) = 2
    /\ Len(neighbors(Self, 0, 1)) = 5

====
